---- MODULE Spec2Model ----
(***************************************************************************)
(* Library management service (services/library_service.py) over its      *)
(* relational store and the injected payment gateway.                     *)
(*                                                                         *)
(* Units: money is in cents, time is in clock ticks (TicksPerDay ticks to  *)
(* a day), so that datetime differences keep a sub-day part and            *)
(* timedelta.days is a real floor.                                         *)
(*                                                                         *)
(* Python values that a caller may pass are tagged records [t, v]:         *)
(* t = "str" with v the sequence of characters, t = "int" with v = <<n>>,  *)
(* t = "none" for None.                                                    *)
(***************************************************************************)
EXTENDS Integers, Sequences, FiniteSets, TLC

VARIABLES
    books,        \* store table books: id (1-based autoincrement) -> row
    records,      \* store table borrow_records, in insertion order
    now,          \* the wall clock read by datetime.now(), in ticks
    last,         \* the call that ran last: its arguments and what it returned
    ticks,        \* how many times the clock has been advanced
    faults,       \* history: how many store writes have reported failure
    trip,         \* history: progress of a borrow / return / return sequence
    inflight      \* the borrow calls in progress when calls overlap, per thread

vars == <<books, records, now, last, ticks, faults, trip, inflight>>

----------------------------------------------------------------------------
(* Bounds of the model *)

MaxBooks == 2
MaxRecords == 3
MaxTicks == 1
MaxFaults == 1
MaxLimitExtra == 3
MaxCatalogBooks == 3
MaxFeeNow == 240
MaxOrphanFaults == 2
MaxReportTicks == 2
MaxReportRecords == 2
MaxFrameExtra == 1
MaxFrameReturned == 1

(* Program constants *)

TicksPerDay == 2
LoanDays == 14
BorrowLimit == 5
IsbnLen == 13
PatronIdLen == 6
MaxTitleLen == 200
MaxAuthorLen == 100
TierDays == 7
TierOneRate == 50
TierTwoRate == 100
FeeCap == 1500
RefundCap == 1500

----------------------------------------------------------------------------
(* Python values *)

PyStr(s) == [t |-> "str", v |-> s]
PyInt(n) == [t |-> "int", v |-> <<n>>]
PyNone == [t |-> "none", v |-> <<>>]

Digits == {"0", "1", "2", "3", "4", "5", "6", "7", "8", "9"}

\* str.isdigit(): non-empty and every character a digit
isdigit(s) == Len(s) > 0 /\ \A i \in 1..Len(s) : s[i] \in Digits

\* Python truthiness of a str / int / None argument
Truthy(x) ==
    CASE x.t = "none" -> FALSE
      [] x.t = "str" -> Len(x.v) > 0
      [] x.t = "int" -> x.v[1] # 0

\* timedelta.days of (a - b): floor of the difference in days
DaysBetween(a, b) == (a - b) \div TicksPerDay

Max(a, b) == IF a >= b THEN a ELSE b
Min(a, b) == IF a <= b THEN a ELSE b

NoDate == -1

----------------------------------------------------------------------------
(* The store (database module): tables books and borrow_records *)

NoBook == [isbn |-> <<>>, total_copies |-> 0, available_copies |-> 0, id |-> 0]

get_book_by_id(bks, book_id) ==
    IF book_id \in 1..Len(bks) THEN bks[book_id] ELSE NoBook

get_book_by_isbn(bks, isbn) ==
    IF \E i \in 1..Len(bks) : bks[i].isbn = isbn
    THEN bks[CHOOSE i \in 1..Len(bks) : bks[i].isbn = isbn]
    ELSE NoBook

insert_book(bks, isbn, total_copies, available_copies) ==
    Append(bks, [isbn |-> isbn, total_copies |-> total_copies,
                 available_copies |-> available_copies, id |-> Len(bks) + 1])

update_book_availability(bks, book_id, delta) ==
    [bks EXCEPT ![book_id].available_copies = @ + delta]

IsOpen(r) == r.return_date = NoDate

\* indices of the unreturned records of a patron, in insertion order
OpenIdx(recs, patron_id) ==
    {i \in 1..Len(recs) : recs[i].patron_id = patron_id /\ IsOpen(recs[i])}

get_patron_borrow_count(recs, patron_id) == Cardinality(OpenIdx(recs, patron_id))

\* indices of the unreturned records of a (patron, book) pair
OpenPairIdx(recs, patron_id, book_id) ==
    {i \in OpenIdx(recs, patron_id) : recs[i].book_id = book_id}

insert_borrow_record(recs, patron_id, book_id, borrow_date, due_date) ==
    Append(recs, [book_id |-> book_id, return_date |-> NoDate,
                  patron_id |-> patron_id, borrow_date |-> borrow_date,
                  due_date |-> due_date])

stamp_every_record_of_pair(recs, patron_id, book_id, return_date, k) ==
    [i \in 1..Len(recs) |->
        IF recs[i].patron_id = patron_id /\ recs[i].book_id = book_id
        THEN [recs[i] EXCEPT !.return_date = return_date]
        ELSE recs[i]]

\* set_return_date(patron_id, book_id, date): stamps one unreturned record of
\* the pair, the record k
update_borrow_record_return_date(recs, patron_id, book_id, return_date, k) ==
    IF k \in OpenPairIdx(recs, patron_id, book_id)
    THEN [recs EXCEPT ![k].return_date = return_date]
    ELSE recs

----------------------------------------------------------------------------
(* Validation helpers of the service *)

\* not patron_id or not patron_id.isdigit() or len(patron_id) != 6
InvalidPatron(patron_id) ==
    \/ ~Truthy(patron_id)
    \/ ~isdigit(patron_id.v)
    \/ Len(patron_id.v) # PatronIdLen

\* len(isbn) != 13 or not isbn.isdigit()
InvalidIsbn(isbn) == Len(isbn.v) # IsbnLen \/ ~isdigit(isbn.v)

\* not isinstance(total_copies, int) or total_copies <= 0
InvalidCopies(total_copies) == total_copies.t # "int" \/ total_copies.v[1] <= 0

DuplicateIsbnUnchecked(bks, isbn) == FALSE

\* existing = get_book_by_isbn(isbn); if existing
DuplicateIsbn(bks, isbn) == get_book_by_isbn(bks, isbn) # NoBook

\* book['available_copies'] <= 0
NotAvailable(book) == book.available_copies <= 0

LimitReachedOffByOne(current_borrowed) == current_borrowed > BorrowLimit

\* current_borrowed >= 5
LimitReached(current_borrowed) == current_borrowed >= BorrowLimit

\* the first unreturned record of the patron for the book, 0 if there is none
FindBorrowRecord(recs, patron_id, book_id) ==
    IF OpenPairIdx(recs, patron_id, book_id) = {} THEN 0
    ELSE CHOOSE i \in OpenPairIdx(recs, patron_id, book_id) :
            \A j \in OpenPairIdx(recs, patron_id, book_id) : i <= j

----------------------------------------------------------------------------
(* Results *)

NoPayload == [id |-> "", amount |-> 0, days_overdue |-> 0]

----------------------------------------------------------------------------
(* add_book_to_catalog.  title_len and author_len are len(title.strip())   *)
(* and len(author.strip()); a None or empty argument has length 0.  The    *)
(* flag ins_ok is what insert_book reports.                                *)

Outcome(bks, recs, ok, msg) == [books |-> bks, records |-> recs, ok |-> ok, msg |-> msg]

add_book_to_catalog(bks, recs, title_len, author_len, isbn, total_copies, ins_ok) ==
    IF title_len = 0 THEN Outcome(bks, recs, FALSE, "Title is required.")
    ELSE IF title_len > MaxTitleLen
    THEN Outcome(bks, recs, FALSE, "Title must be less than 200 characters.")
    ELSE IF author_len = 0 THEN Outcome(bks, recs, FALSE, "Author is required.")
    ELSE IF author_len > MaxAuthorLen
    THEN Outcome(bks, recs, FALSE, "Author must be less than 100 characters.")
    ELSE IF InvalidIsbn(isbn)
    THEN Outcome(bks, recs, FALSE, "ISBN must be exactly 13 digits.")
    ELSE IF InvalidCopies(total_copies)
    THEN Outcome(bks, recs, FALSE, "Total copies must be a positive integer.")
    ELSE IF DuplicateIsbn(bks, isbn.v)
    THEN Outcome(bks, recs, FALSE, "A book with this ISBN already exists.")
    ELSE IF ins_ok
    THEN Outcome(insert_book(bks, isbn.v, total_copies.v[1], total_copies.v[1]), recs,
                 TRUE, "Book has been successfully added to the catalog.")
    ELSE Outcome(bks, recs, FALSE, "Database error occurred while adding the book.")

(* borrow_book_by_patron at clock t.  ins_ok and upd_ok are what            *)
(* insert_borrow_record and update_book_availability report; a write that  *)
(* reports failure changes nothing.                                        *)

AvailabilityAfterBorrowSkipped(bks, book_id) == bks

\* update_book_availability(book_id, -1)
AvailabilityAfterBorrow(bks, book_id) == update_book_availability(bks, book_id, -1)

AvailabilityAfterReturnSkipped(bks, book_id) == bks

\* update_book_availability(book_id, 1)
AvailabilityAfterReturn(bks, book_id) == update_book_availability(bks, book_id, 1)

borrow_book_with_rollback(bks, recs, t, patron_id, book_id, ins_ok, upd_ok) ==
    IF InvalidPatron(patron_id)
    THEN Outcome(bks, recs, FALSE, "Invalid patron ID. Must be exactly 6 digits.")
    ELSE IF get_book_by_id(bks, book_id) = NoBook
    THEN Outcome(bks, recs, FALSE, "Book not found.")
    ELSE IF NotAvailable(get_book_by_id(bks, book_id))
    THEN Outcome(bks, recs, FALSE, "This book is currently not available.")
    ELSE IF LimitReached(get_patron_borrow_count(recs, patron_id))
    THEN Outcome(bks, recs, FALSE,
                 "You have reached the maximum borrowing limit of 5 books.")
    ELSE IF ~ins_ok
    THEN Outcome(bks, recs, FALSE,
                 "Database error occurred while creating borrow record.")
    ELSE IF ~upd_ok
    THEN Outcome(bks, recs, FALSE,
                 "Database error occurred while updating book availability.")
    ELSE Outcome(AvailabilityAfterBorrow(bks, book_id),
                 insert_borrow_record(recs, patron_id, book_id, t,
                                      t + LoanDays * TicksPerDay),
                 TRUE, "Successfully borrowed.")

borrow_book_by_patron(bks, recs, t, patron_id, book_id, ins_ok, upd_ok) ==
    IF InvalidPatron(patron_id)
    THEN Outcome(bks, recs, FALSE, "Invalid patron ID. Must be exactly 6 digits.")
    ELSE IF get_book_by_id(bks, book_id) = NoBook
    THEN Outcome(bks, recs, FALSE, "Book not found.")
    ELSE IF NotAvailable(get_book_by_id(bks, book_id))
    THEN Outcome(bks, recs, FALSE, "This book is currently not available.")
    ELSE IF LimitReached(get_patron_borrow_count(recs, patron_id))
    THEN Outcome(bks, recs, FALSE,
                 "You have reached the maximum borrowing limit of 5 books.")
    ELSE IF ~ins_ok
    THEN Outcome(bks, recs, FALSE,
                 "Database error occurred while creating borrow record.")
    ELSE IF ~upd_ok
    THEN Outcome(bks,
                 insert_borrow_record(recs, patron_id, book_id, t,
                                      t + LoanDays * TicksPerDay),
                 FALSE, "Database error occurred while updating book availability.")
    ELSE Outcome(AvailabilityAfterBorrow(bks, book_id),
                 insert_borrow_record(recs, patron_id, book_id, t,
                                      t + LoanDays * TicksPerDay),
                 TRUE, "Successfully borrowed.")

(* return_book_by_patron at clock t.  k is the unreturned record of the    *)
(* pair that the store stamps; set_ok and upd_ok are what                  *)
(* update_borrow_record_return_date and update_book_availability report.   *)

return_book_unchecked(bks, recs, t, patron_id, book_id, k, set_ok, upd_ok) ==
    IF InvalidPatron(patron_id)
    THEN Outcome(bks, recs, FALSE, "Invalid patron ID. Must be exactly 6 digits.")
    ELSE IF get_book_by_id(bks, book_id) = NoBook
    THEN Outcome(bks, recs, FALSE, "Book not found.")
    ELSE IF FindBorrowRecord(recs, patron_id, book_id) = 0
    THEN Outcome(AvailabilityAfterReturn(bks, book_id), recs, FALSE,
                 "No borrowing record found for this patron and book.")
    ELSE IF ~set_ok
    THEN Outcome(bks, recs, FALSE,
                 "Database error occurred while updating return date.")
    ELSE IF ~upd_ok
    THEN Outcome(bks, update_borrow_record_return_date(recs, patron_id, book_id, t, k), FALSE,
                 "Database error occurred while updating book availability.")
    ELSE Outcome(AvailabilityAfterReturn(bks, book_id),
                 update_borrow_record_return_date(recs, patron_id, book_id, t, k),
                 TRUE, "Successfully returned.")

return_book_by_patron(bks, recs, t, patron_id, book_id, k, set_ok, upd_ok) ==
    IF InvalidPatron(patron_id)
    THEN Outcome(bks, recs, FALSE, "Invalid patron ID. Must be exactly 6 digits.")
    ELSE IF get_book_by_id(bks, book_id) = NoBook
    THEN Outcome(bks, recs, FALSE, "Book not found.")
    ELSE IF FindBorrowRecord(recs, patron_id, book_id) = 0
    THEN Outcome(bks, recs, FALSE,
                 "No borrowing record found for this patron and book.")
    ELSE IF ~set_ok
    THEN Outcome(bks, recs, FALSE,
                 "Database error occurred while updating return date.")
    ELSE IF ~upd_ok
    THEN Outcome(bks, update_borrow_record_return_date(recs, patron_id, book_id, t, k), FALSE,
                 "Database error occurred while updating book availability.")
    ELSE Outcome(AvailabilityAfterReturn(bks, book_id),
                 update_borrow_record_return_date(recs, patron_id, book_id, t, k),
                 TRUE, "Successfully returned.")

----------------------------------------------------------------------------
(* calculate_late_fee_for_book at clock t.  The status "Overdue by N days"  *)
(* is the text with its number n kept beside it.                           *)

FeeMapping(fee_amount, days_overdue, status, n) ==
    [n |-> n, days_overdue |-> days_overdue, fee_amount |-> fee_amount,
     status |-> status]

\* days_overdue = max(0, (current_date - due_date).days)
DaysOverdue(t, due_date) == Max(0, DaysBetween(t, due_date))

FeeForDaysUncapped(days_overdue) ==
    IF days_overdue > 0
    THEN IF days_overdue <= TierDays
         THEN days_overdue * TierOneRate
         ELSE TierDays * TierOneRate + (days_overdue - TierDays) * TierTwoRate
    ELSE 0

\* the tiered schedule, in cents; round(fee_amount, 2) leaves a multiple of
\* fifty cents as it is
FeeForDays(days_overdue) ==
    IF days_overdue > 0
    THEN Min(IF days_overdue <= TierDays
             THEN days_overdue * TierOneRate
             ELSE TierDays * TierOneRate + (days_overdue - TierDays) * TierTwoRate,
             FeeCap)
    ELSE 0

FeeStatus(days_overdue) ==
    IF days_overdue = 0 THEN "Success" ELSE "Overdue by N days"

calculate_late_fee_book_first(bks, recs, t, patron_id, book_id) ==
    IF get_book_by_id(bks, book_id) = NoBook
    THEN FeeMapping(0, 0, "Book not found.", 0)
    ELSE IF InvalidPatron(patron_id)
    THEN FeeMapping(0, 0, "Invalid patron ID. Must be exactly 6 digits.", 0)
    ELSE IF FindBorrowRecord(recs, patron_id, book_id) = 0
    THEN FeeMapping(0, 0, "No active borrowing record found.", 0)
    ELSE LET due_date == recs[FindBorrowRecord(recs, patron_id, book_id)].due_date
             days_overdue == DaysOverdue(t, due_date)
         IN  FeeMapping(FeeForDays(days_overdue), days_overdue,
                        FeeStatus(days_overdue), days_overdue)

calculate_late_fee_for_book(bks, recs, t, patron_id, book_id) ==
    IF InvalidPatron(patron_id)
    THEN FeeMapping(0, 0, "Invalid patron ID. Must be exactly 6 digits.", 0)
    ELSE IF get_book_by_id(bks, book_id) = NoBook
    THEN FeeMapping(0, 0, "Book not found.", 0)
    ELSE IF FindBorrowRecord(recs, patron_id, book_id) = 0
    THEN FeeMapping(0, 0, "No active borrowing record found.", 0)
    ELSE LET due_date == recs[FindBorrowRecord(recs, patron_id, book_id)].due_date
             days_overdue == DaysOverdue(t, due_date)
         IN  FeeMapping(FeeForDays(days_overdue), days_overdue,
                        FeeStatus(days_overdue), days_overdue)

----------------------------------------------------------------------------
(* search_books_in_catalog.  The rows of the model keep no title or author *)
(* text, so the caller says which books' titles or authors contain the     *)
(* term (text_hits); the ISBN match is computed.  The result is kept as    *)
(* the set of the ids of the books found.                                  *)

RECURSIVE LStrip(_)
LStrip(s) == IF s # <<>> /\ Head(s) = " " THEN LStrip(Tail(s)) ELSE s

RECURSIVE RStrip(_)
RStrip(s) ==
    IF s # <<>> /\ s[Len(s)] = " " THEN RStrip(SubSeq(s, 1, Len(s) - 1)) ELSE s

\* str.strip() for the blank character
strip(s) == RStrip(LStrip(s))

valid_types == {"title", "author", "isbn"}

search_books_in_catalog(bks, search_term, search_type, text_hits) ==
    IF ~Truthy(search_term) \/ strip(search_term.v) = <<>> THEN {}
    ELSE IF search_type \notin valid_types THEN {}
    ELSE IF search_type = "isbn"
    THEN {i \in 1..Len(bks) : bks[i].isbn = strip(search_term.v)}
    ELSE text_hits \cap (1..Len(bks))

----------------------------------------------------------------------------
(* get_patron_status_report at clock t.  The store's                       *)
(* get_patron_borrowed_books gives the patron's unreturned records in      *)
(* insertion order, each flagged is_overdue (the clock is past its due     *)
(* date).  The report keeps the records by their index in the table;       *)
(* borrowing_history is kept as the set of the patron's records.           *)

is_overdue(r, t) == t > r.due_date

RECURSIVE IdxSeq(_, _)
\* the indices in idx, ascending from lo
IdxSeq(idx, lo) ==
    IF \A i \in idx : i < lo THEN <<>>
    ELSE IF lo \in idx THEN <<lo>> \o IdxSeq(idx, lo + 1)
    ELSE IdxSeq(idx, lo + 1)

get_patron_borrowed_books(recs, patron_id) == IdxSeq(OpenIdx(recs, patron_id), 1)

ReportFeeUncapped(days_overdue) ==
    IF days_overdue <= TierDays
    THEN days_overdue * TierOneRate
    ELSE TierDays * TierOneRate + (days_overdue - TierDays) * TierTwoRate

\* the schedule as the report repeats it: late_fee = min(late_fee, 15.00)
ReportFee(days_overdue) ==
    Min(IF days_overdue <= TierDays
        THEN days_overdue * TierOneRate
        ELSE TierDays * TierOneRate + (days_overdue - TierDays) * TierTwoRate,
        FeeCap)

RECURSIVE ReportFees(_, _, _, _)
\* the loop over borrowed_books from position i on: total_late_fees += late_fee
\* for the records flagged overdue
ReportFees(recs, t, borrowed_books, i) ==
    IF i > Len(borrowed_books) THEN 0
    ELSE (IF is_overdue(recs[borrowed_books[i]], t)
          THEN ReportFee(DaysBetween(t, recs[borrowed_books[i]].due_date))
          ELSE 0)
         + ReportFees(recs, t, borrowed_books, i + 1)

Report(error, borrowed_books, total_borrowed, total_late_fees, borrowing_history) ==
    [error |-> error, total_borrowed |-> total_borrowed,
     total_late_fees |-> total_late_fees, borrowing_history |-> borrowing_history,
     currently_borrowed_books |-> borrowed_books]

\* round(total_late_fees, 2) leaves a sum of multiples of fifty cents as it is
get_patron_status_report(recs, t, patron_id) ==
    IF InvalidPatron(patron_id)
    THEN Report("Invalid patron ID. Must be exactly 6 digits.", <<>>, 0, 0, {})
    ELSE Report("", get_patron_borrowed_books(recs, patron_id),
                Len(get_patron_borrowed_books(recs, patron_id)),
                ReportFees(recs, t, get_patron_borrowed_books(recs, patron_id), 1),
                {i \in 1..Len(recs) : recs[i].patron_id = patron_id})

----------------------------------------------------------------------------
(* The payment gateway, as the service sees it: a call either raises or    *)
(* returns a value.  A returned value is None, a mapping (has = its keys)  *)
(* or some other object (truthy or falsy).                                 *)

GatewayValue(k, has, status, reason, id, truthy) ==
    [id |-> id, k |-> k, status |-> status, has |-> has, reason |-> reason,
     truthy |-> truthy]

Raises(e) == GatewayValue("raise", {}, "", e, "", FALSE)
Mapping(has, status, reason, id) == GatewayValue("dict", has, status, reason, id, has # {})
NotMapping(truthy) == GatewayValue("other", {}, "", "", "", truthy)
ReturnsNone == GatewayValue("none", {}, "", "", "", FALSE)

\* the value of None where a message is expected
NoneValue == "<None>"

\* resp.get(key)
Get(resp, key) ==
    IF key \notin resp.has THEN NoneValue
    ELSE CASE key = "status" -> resp.status
           [] key = "reason" -> resp.reason
           [] OTHER -> resp.id

\* PaymentGateway.process_payment
process_payment(patron_id, amount) ==
    IF amount <= 0 THEN Mapping({"status", "reason"}, "error", "invalid amount", "")
    ELSE Mapping({"status", "transaction_id"}, "success", "", "TXN")

\* PaymentGateway.refund_payment
refund_payment(transaction_id, amount) ==
    IF ~Truthy(transaction_id) \/ amount <= 0
    THEN Mapping({"status", "reason"}, "error", "invalid refund", "")
    ELSE Mapping({"status", "refund_id", "amount"}, "refunded", "", "RF")

----------------------------------------------------------------------------
(* pay_late_fees and refund_late_fee_payment.  resp is what the gateway    *)
(* does when it is called.  A reply holds (ok, msg) or (ok, payload), the  *)
(* gateway calls made and the fault that escapes the call, if any.         *)

Call(fn, who, amount) == [amount |-> amount, fn |-> fn, who |-> who]

Reply(ok, msg, payload, calls, raised) ==
    [ok |-> ok, msg |-> msg, payload |-> payload, calls |-> calls, raised |-> raised]

Payload(id, amount, days_overdue) ==
    [id |-> id, amount |-> amount, days_overdue |-> days_overdue]

\* except Exception as e: return False, f"Payment exception: {e}"
PaymentFaultEscapes(e, calls) == Reply(FALSE, "", NoPayload, calls, "Exception")

PaymentFault(e, calls) == Reply(FALSE, "Payment exception: " \o e, NoPayload, calls, "")

\* except Exception as e: return False, f"Refund exception: {e}"
RefundFault(e, calls) == Reply(FALSE, "Refund exception: " \o e, NoPayload, calls, "")

\* fee <= 0
NothingToPayStrict(fee) == fee < 0

NothingToPay(fee) == fee <= 0

pay_late_fees(bks, recs, t, patron_id, book_id, resp) ==
    IF InvalidPatron(patron_id)
    THEN Reply(FALSE, "Invalid patron ID", NoPayload, <<>>, "")
    ELSE IF get_book_by_id(bks, book_id) = NoBook
    THEN Reply(FALSE, "Book not found", NoPayload, <<>>, "")
    ELSE
    LET r == calculate_late_fee_for_book(bks, recs, t, patron_id, book_id)
        fee == r.fee_amount
        days == r.days_overdue
        calls == <<Call("process_payment", patron_id, fee)>>
    IN  IF r.status \in {"Book not found.", "No active borrowing record found."}
        THEN Reply(FALSE, r.status, NoPayload, <<>>, "")
        ELSE IF NothingToPay(fee) THEN Reply(TRUE, "No late fees", NoPayload, <<>>, "")
        ELSE IF resp.k = "raise" THEN PaymentFault(resp.reason, calls)
        ELSE IF ~resp.truthy
        THEN Reply(FALSE,
                   IF resp.k = "dict" THEN Get(resp, "reason") ELSE "Payment failed",
                   NoPayload, calls, "")
        ELSE IF resp.k # "dict"
        THEN Reply(FALSE, "", NoPayload, calls, "AttributeError")
        ELSE IF Get(resp, "status") # "success"
        THEN Reply(FALSE, Get(resp, "reason"), NoPayload, calls, "")
        ELSE IF "transaction_id" \notin resp.has
        THEN Reply(FALSE, "", NoPayload, calls, "KeyError")
        ELSE Reply(TRUE, "", Payload(Get(resp, "transaction_id"), fee, days), calls, "")

\* float(amount), in cents: a number is itself, a string of digits is that
\* many dollars, anything else does not parse (-1 with ok = FALSE)
RECURSIVE DigitsValue(_)
DigitsValue(s) ==
    IF Len(s) = 0 THEN 0
    ELSE 10 * DigitsValue(SubSeq(s, 1, Len(s) - 1))
         + (CHOOSE d \in 0..9 : <<"0", "1", "2", "3", "4", "5", "6", "7", "8", "9">>[d + 1] = s[Len(s)])

ToFloat(amount) ==
    CASE amount.t = "int" -> [ok |-> TRUE, amt |-> amount.v[1]]
      [] amount.t = "str" /\ isdigit(amount.v) ->
            [ok |-> TRUE, amt |-> 100 * DigitsValue(amount.v)]
      [] OTHER -> [ok |-> FALSE, amt |-> -1]

AmountOutOfRangeStrict(amt) == amt <= 0 \/ amt >= RefundCap

\* amt <= 0 or amt > 15.0
AmountOutOfRange(amt) == amt <= 0 \/ amt > RefundCap

\* not transaction_id or not isinstance(transaction_id, str)
InvalidTransaction(transaction_id) ==
    ~Truthy(transaction_id) \/ transaction_id.t # "str"

refund_late_fee_payment(transaction_id, amount, resp) ==
    IF InvalidTransaction(transaction_id)
    THEN Reply(FALSE, "Invalid transaction", NoPayload, <<>>, "")
    ELSE IF ~ToFloat(amount).ok
    THEN Reply(FALSE, "Invalid amount", NoPayload, <<>>, "")
    ELSE
    LET amt == ToFloat(amount).amt
        calls == <<Call("refund_payment", transaction_id, amt)>>
    IN  IF AmountOutOfRange(amt)
        THEN Reply(FALSE, "Amount must be >0 and <=15", NoPayload, <<>>, "")
        ELSE IF resp.k = "raise" THEN RefundFault(resp.reason, calls)
        ELSE IF ~resp.truthy
        THEN Reply(FALSE,
                   IF resp.k = "dict" THEN Get(resp, "reason") ELSE "Refund failed",
                   NoPayload, calls, "")
        ELSE IF resp.k # "dict"
        THEN Reply(FALSE, "", NoPayload, calls, "AttributeError")
        ELSE IF Get(resp, "status") # "refunded"
        THEN Reply(FALSE, Get(resp, "reason"), NoPayload, calls, "")
        ELSE IF "refund_id" \notin resp.has
        THEN Reply(FALSE, "", NoPayload, calls, "KeyError")
        ELSE Reply(TRUE, "", Payload(Get(resp, "refund_id"), amt, 0), calls, "")

----------------------------------------------------------------------------
(* Arguments the callers pass *)

P1 == PyStr(<<"1", "2", "3", "4", "5", "6">>)
P2 == PyStr(<<"6", "5", "4", "3", "2", "1">>)
PLetters == PyStr(<<"1", "2", "A", "4", "5", "6">>)
PShort == PyStr(<<"1", "2", "3", "4">>)

ValidPatrons == {P1, P2}

Isbn1 == PyStr(<<"9", "7", "8", "3", "8", "6", "2", "9", "0", "2", "2", "7", "9">>)
Isbn2 == PyStr(<<"9", "7", "8", "1", "1", "1", "9", "3", "2", "0", "9", "1", "3">>)
Isbn3 == PyStr(<<"9", "7", "8", "1", "2", "5", "9", "6", "7", "6", "5", "1", "2">>)
IsbnLetters == PyStr(<<"9", "7", "8", "a", "b", "c", "1", "2", "3", "4", "5", "6", "7">>)
IsbnShort == PyStr(<<"9", "7", "8">>)

\* add_book arguments <<title_len, author_len, isbn, total_copies>>: the valid
\* ones, and each field wrong in turn
ValidAddArgs(isbns, copies) == {1, MaxTitleLen} \X {1, MaxAuthorLen} \X isbns \X copies

InvalidAddArgs ==
    ({0, MaxTitleLen + 1} \X {1} \X {Isbn1} \X {PyInt(1)})
    \cup ({1} \X {0, MaxAuthorLen + 1} \X {Isbn1} \X {PyInt(1)})
    \cup ({1} \X {1} \X {IsbnLetters, IsbnShort} \X {PyInt(1)})
    \cup ({1} \X {1} \X {Isbn1} \X {PyInt(-1), PyInt(0), PyStr(<<"2">>)})

Copies == {PyInt(2)}

BookIds(maxBooks) == 0 .. maxBooks

GatewayAnswers(marker, id_key) ==
    { Raises("boom"), ReturnsNone, NotMapping(TRUE), NotMapping(FALSE),
      Mapping({}, "", "", ""),
      Mapping({"status"}, "error", "", ""),
      Mapping({"status", "reason"}, "error", "DECLINED", ""),
      Mapping({"reason"}, "", "DECLINED", ""),
      Mapping({"status"}, marker, "", ""),
      Mapping({"status", id_key}, marker, "", "ID1") }

Tx == PyStr(<<"t", "x">>)
TxInputs == {Tx, PyStr(<<" ">>), PyStr(<<>>), PyNone, PyInt(7)}
AmountInputs ==
    {PyInt(-100), PyInt(0), PyInt(1), PyInt(300), PyInt(RefundCap), PyInt(RefundCap + 1),
     PyInt(1600), PyStr(<<"1", "5">>), PyStr(<<"1", "6">>), PyStr(<<"a">>), PyNone}

\* refund arguments <<transaction_id, amount>>: every amount with a good
\* transaction id, every transaction id with a good amount
RefundArgs == ({Tx} \X AmountInputs) \cup (TxInputs \X {PyInt(300)})

JumpSteps == {1, (LoanDays + 3) * TicksPerDay}

\* which of the (at most two) store writes of a call reports failure
WriteFaults == {0, 1, 2}

----------------------------------------------------------------------------
(* The state after construction and the calls *)

NoFee == FeeMapping(0, 0, "", 0)
NoArgs == <<>>

Last(op, args, ok, msg, fee, payload, calls, raised) ==
    [ok |-> ok, msg |-> msg, payload |-> payload, calls |-> calls,
     raised |-> raised, fee |-> fee, op |-> op, args |-> args]

Idle == [book |-> 0, stage |-> 0, patron |-> PyNone, pre |-> 0, held |-> 0]

\* the threads that may run a call at the same time
Threads == {1, 2}

\* a thread's borrow call: pc is the store call it makes next, avail and
\* count are what its reads of the book row and of the patron's count gave
ThreadCall(pc, patron, book, avail, count, ok) ==
    [book |-> book, ok |-> ok, patron |-> patron, pc |-> pc, avail |-> avail,
     count |-> count]

NoCall == ThreadCall("idle", PyNone, 0, 0, 0, FALSE)
NoCalls == [th \in Threads |-> NoCall]

WriteErrors ==
    { "Database error occurred while adding the book.",
      "Database error occurred while creating borrow record.",
      "Database error occurred while updating book availability.",
      "Database error occurred while updating return date." }

Init ==
    /\ books = <<>>
    /\ records = <<>>
    /\ now = 0
    /\ ticks = 0
    /\ last = Last("init", NoArgs, TRUE, "", NoFee, NoPayload, <<>>, "")
    /\ faults = 0
    /\ trip = Idle
    /\ inflight = NoCalls

Commit(op, args, out) ==
    /\ books' = out.books
    /\ records' = out.records
    /\ last' = Last(op, args, out.ok, out.msg, NoFee, NoPayload, <<>>, "")
    /\ faults' = IF out.msg \in WriteErrors THEN faults + 1 ELSE faults
    /\ faults' <= MaxFaults

AddBook(args, maxBooks) ==
    \E a \in args, ins_ok \in BOOLEAN :
        \E out \in {add_book_to_catalog(books, records, a[1], a[2], a[3], a[4], ins_ok)} :
            /\ Len(out.books) <= maxBooks
            /\ Commit("add_book", a, out)
            /\ trip' = Idle
            /\ UNCHANGED <<now, ticks, inflight>>

Borrow(patrons, maxBooks, maxRecords) ==
    \E patron_id \in patrons, book_id \in BookIds(maxBooks), fault \in WriteFaults :
        \E out \in {borrow_book_by_patron(books, records, now, patron_id, book_id,
                                         fault # 1, fault # 2)} :
            /\ Len(out.records) <= maxRecords
            /\ Commit("borrow", NoArgs, out)
            /\ trip' = IF out.ok
                       THEN [book |-> book_id, stage |-> 1, patron |-> patron_id,
                             pre |-> books[book_id].available_copies,
                             held |-> Cardinality(OpenPairIdx(records, patron_id, book_id))]
                       ELSE Idle
            /\ UNCHANGED <<now, ticks, inflight>>

Return(patrons, maxBooks) ==
    \E patron_id \in patrons, book_id \in BookIds(maxBooks), fault \in WriteFaults :
      \E k \in IF OpenPairIdx(records, patron_id, book_id) # {}
                THEN OpenPairIdx(records, patron_id, book_id) ELSE {0} :
        \E out \in {return_book_by_patron(books, records, now, patron_id, book_id, k,
                                         fault # 1, fault # 2)} :
            /\ Commit("return", NoArgs, out)
            /\ trip' = IF trip.stage = 1 /\ trip.patron = patron_id
                          /\ trip.book = book_id /\ out.ok
                       THEN [trip EXCEPT !.stage = 2]
                       ELSE IF trip.stage = 2 /\ trip.patron = patron_id
                               /\ trip.book = book_id
                       THEN [trip EXCEPT !.stage = 3]
                       ELSE Idle
            /\ UNCHANGED <<now, ticks, inflight>>

LateFee(patrons, maxBooks) ==
    \E patron_id \in patrons, book_id \in BookIds(maxBooks) :
        /\ last' = Last("late_fee", <<patron_id, book_id, now>>, TRUE, "",
                        calculate_late_fee_for_book(books, records, now, patron_id, book_id),
                        NoPayload, <<>>, "")
        /\ trip' = Idle
        /\ UNCHANGED <<books, records, now, ticks, faults, inflight>>

Pay(patrons, maxBooks) ==
    \E patron_id \in patrons, book_id \in BookIds(maxBooks) :
      \E resp \in GatewayAnswers("success", "transaction_id")
                   \cup {process_payment(patron_id,
                            calculate_late_fee_for_book(books, records, now,
                                patron_id, book_id).fee_amount)} :
        \E out \in {pay_late_fees(books, records, now, patron_id, book_id, resp)} :
            /\ last' = Last("pay", <<patron_id, book_id, resp>>, out.ok, out.msg,
                            calculate_late_fee_for_book(books, records, now, patron_id, book_id),
                            out.payload, out.calls, out.raised)
            /\ trip' = Idle
            /\ UNCHANGED <<books, records, now, ticks, faults, inflight>>

Refund ==
    \E a \in RefundArgs :
      \E resp \in GatewayAnswers("refunded", "refund_id")
                   \cup {refund_payment(a[1], ToFloat(a[2]).amt)} :
        \E out \in {refund_late_fee_payment(a[1], a[2], resp)} :
            /\ last' = Last("refund", <<a[1], a[2], resp>>, out.ok, out.msg,
                            NoFee, out.payload, out.calls, out.raised)
            /\ trip' = Idle
            /\ UNCHANGED <<books, records, now, ticks, faults, inflight>>

SearchTerms == {Isbn1, PyStr(<<" ">> \o Isbn2.v \o <<" ">>), PyStr(<<" ">>), PyNone}
SearchTypes == valid_types \cup {"year"}

Search ==
    \E search_term \in SearchTerms, search_type \in SearchTypes,
       text_hits \in SUBSET (1..Len(books)) :
        /\ last' = Last("search", <<search_term, search_type>>, TRUE, "", NoFee,
                        search_books_in_catalog(books, search_term, search_type, text_hits),
                        <<>>, "")
        /\ trip' = Idle
        /\ UNCHANGED <<books, records, now, ticks, faults, inflight>>

StatusReport(patrons) ==
    \E patron_id \in patrons :
        /\ last' = Last("status_report", <<patron_id, now>>, TRUE, "", NoFee,
                        get_patron_status_report(records, now, patron_id), <<>>, "")
        /\ trip' = Idle
        /\ UNCHANGED <<books, records, now, ticks, faults, inflight>>

Tick(steps, maxTicks) ==
    \E step \in steps :
        /\ ticks < maxTicks
        /\ now' = now + step
        /\ ticks' = ticks + 1
        /\ UNCHANGED <<books, records, last, faults, trip, inflight>>

----------------------------------------------------------------------------
(* Catalog and circulation *)

CircPatrons == ValidPatrons \cup {PLetters}

AddBookStep == AddBook({1} \X {1} \X {Isbn1, Isbn2} \X Copies, MaxBooks)
BorrowStep == Borrow(CircPatrons, MaxBooks, MaxRecords)
ReturnStep == Return(CircPatrons, MaxBooks)

Next ==
    \/ AddBookStep
    \/ BorrowStep
    \/ ReturnStep

Spec == Init /\ [][Next]_vars

----------------------------------------------------------------------------
(* The catalog alone: add_book with every kind of argument *)

CatalogArgs ==
    ValidAddArgs({Isbn1, Isbn2, Isbn3}, {PyInt(1), PyInt(2)}) \cup InvalidAddArgs

AddBookCatalog == AddBook(CatalogArgs, MaxCatalogBooks)

NextCatalog == AddBookCatalog

SpecCatalog == Init /\ [][NextCatalog]_vars

----------------------------------------------------------------------------
(* Circulation at the borrowing limit: the catalog holds one book with    *)
(* one copy more than the limit, of which a patron has borrowed one fewer  *)
(* than the limit.                                                         *)

RECURSIVE BorrowTimes(_, _, _, _, _)
BorrowTimes(bks, recs, patron_id, book_id, n) ==
    IF n = 0 THEN Outcome(bks, recs, TRUE, "")
    ELSE LET out == borrow_book_by_patron(bks, recs, 0, patron_id, book_id, TRUE, TRUE)
         IN  BorrowTimes(out.books, out.records, patron_id, book_id, n - 1)

LimitCatalog ==
    add_book_to_catalog(<<>>, <<>>, 1, 1, Isbn1, PyInt(BorrowLimit + 1), TRUE).books

InitLimit ==
    /\ \E out \in {BorrowTimes(LimitCatalog, <<>>, P1, 1, BorrowLimit - 1)} :
          books = out.books /\ records = out.records
    /\ now = 0
    /\ ticks = 0
    /\ last = Last("init", NoArgs, TRUE, "", NoFee, NoPayload, <<>>, "")
    /\ faults = 0
    /\ trip = Idle
    /\ inflight = NoCalls

BorrowLimitStep == Borrow(ValidPatrons, 1, BorrowLimit - 1 + MaxLimitExtra)
ReturnLimitStep == Return(ValidPatrons, 1)

NextLimit ==
    \/ BorrowLimitStep
    \/ ReturnLimitStep

SpecLimit == InitLimit /\ [][NextLimit]_vars

----------------------------------------------------------------------------
(* Fees and payments: the catalog holds one book with one copy, which a    *)
(* patron has borrowed.                                                    *)

PayCatalog == add_book_to_catalog(<<>>, <<>>, 1, 1, Isbn1, PyInt(1), TRUE).books

InitPay ==
    /\ \E out \in {BorrowTimes(PayCatalog, <<>>, P1, 1, 1)} :
          books = out.books /\ records = out.records
    /\ now = 0
    /\ ticks = 0
    /\ last = Last("init", NoArgs, TRUE, "", NoFee, NoPayload, <<>>, "")
    /\ faults = 0
    /\ trip = Idle
    /\ inflight = NoCalls

PayPatrons == ValidPatrons \cup {PLetters, PShort, PyNone}

ReturnPay == Return(ValidPatrons, 1)
LateFeePay == LateFee(PayPatrons, 1)
PayStep == Pay(PayPatrons, 1)
TickPay == Tick(JumpSteps, MaxTicks)

NextPay ==
    \/ ReturnPay
    \/ LateFeePay
    \/ PayStep
    \/ Refund
    \/ TickPay

SpecPay == InitPay /\ [][NextPay]_vars

(* The fee schedule, day by day *)

LateFeeDaily == LateFee({P1}, 1)
TickDaily == Tick({1}, MaxFeeNow)

NextFee ==
    \/ LateFeeDaily
    \/ TickDaily

SpecFee == InitPay /\ [][NextFee]_vars

----------------------------------------------------------------------------
(* Overlapping borrow calls.  Two threads each run borrow_book_by_patron;  *)
(* every store call is one step and the steps of the two calls interleave. *)
(* The catalog holds a book with one copy and a book with one copy more    *)
(* than the limit, of which a patron has borrowed one fewer than the limit.*)

RaceCatalog ==
    add_book_to_catalog(PayCatalog, <<>>, 1, 1, Isbn2, PyInt(BorrowLimit + 1), TRUE).books

InitRace ==
    /\ \E out \in {BorrowTimes(RaceCatalog, <<>>, P1, 2, BorrowLimit - 1)} :
          books = out.books /\ records = out.records
    /\ now = 0
    /\ ticks = 0
    /\ last = Last("init", NoArgs, TRUE, "", NoFee, NoPayload, <<>>, "")
    /\ faults = 0
    /\ trip = Idle
    /\ inflight = NoCalls

\* the call of thread th returns (ok, msg)
Finish(th, ok, msg) ==
    /\ inflight' = [inflight EXCEPT ![th].pc = "done", ![th].ok = ok]
    /\ last' = Last("borrow", NoArgs, ok, msg, NoFee, NoPayload, <<>>, "")
    /\ faults' = IF msg \in WriteErrors THEN faults + 1 ELSE faults
    /\ faults' <= MaxFaults

\* the call is made; the patron id is checked
RaceBegin(th) ==
    /\ inflight[th].pc = "idle"
    /\ \E patron_id \in CircPatrons, book_id \in BookIds(MaxBooks) :
          IF InvalidPatron(patron_id)
          THEN /\ inflight' = [inflight EXCEPT ![th] =
                                 ThreadCall("done", patron_id, book_id, 0, 0, FALSE)]
               /\ last' = Last("borrow", NoArgs, FALSE,
                               "Invalid patron ID. Must be exactly 6 digits.",
                               NoFee, NoPayload, <<>>, "")
          ELSE /\ inflight' = [inflight EXCEPT ![th] =
                                 ThreadCall("get_book", patron_id, book_id, 0, 0, FALSE)]
               /\ UNCHANGED last
    /\ UNCHANGED <<books, records, now, ticks, faults, trip>>

\* book = get_book_by_id(book_id) and the two checks on the row read
RaceGetBook(th) ==
    /\ inflight[th].pc = "get_book"
    /\ \E book \in {get_book_by_id(books, inflight[th].book)} :
          IF book = NoBook THEN Finish(th, FALSE, "Book not found.")
          ELSE IF NotAvailable(book)
          THEN Finish(th, FALSE, "This book is currently not available.")
          ELSE /\ inflight' = [inflight EXCEPT ![th].pc = "get_count",
                                               ![th].avail = book.available_copies]
               /\ UNCHANGED <<last, faults>>
    /\ UNCHANGED <<books, records, now, ticks, trip>>

\* current_borrowed = get_patron_borrow_count(patron_id) and the limit check
RaceGetCount(th) ==
    /\ inflight[th].pc = "get_count"
    /\ \E current_borrowed \in {get_patron_borrow_count(records, inflight[th].patron)} :
          IF LimitReached(current_borrowed)
          THEN Finish(th, FALSE,
                      "You have reached the maximum borrowing limit of 5 books.")
          ELSE /\ inflight' = [inflight EXCEPT ![th].pc = "insert",
                                               ![th].count = current_borrowed]
               /\ UNCHANGED <<last, faults>>
    /\ UNCHANGED <<books, records, now, ticks, trip>>

\* insert_borrow_record(patron_id, book_id, borrow_date, due_date)
RaceInsert(th) ==
    /\ inflight[th].pc = "insert"
    /\ \E ins_ok \in BOOLEAN :
          IF ins_ok
          THEN /\ records' = insert_borrow_record(records, inflight[th].patron,
                                   inflight[th].book, now, now + LoanDays * TicksPerDay)
               /\ inflight' = [inflight EXCEPT ![th].pc = "update"]
               /\ UNCHANGED <<last, faults>>
          ELSE /\ Finish(th, FALSE,
                         "Database error occurred while creating borrow record.")
               /\ UNCHANGED records
    /\ UNCHANGED <<books, now, ticks, trip>>

\* update_book_availability(book_id, -1)
RaceUpdate(th) ==
    /\ inflight[th].pc = "update"
    /\ \E upd_ok \in BOOLEAN :
          IF upd_ok
          THEN /\ books' = AvailabilityAfterBorrow(books, inflight[th].book)
               /\ Finish(th, TRUE, "Successfully borrowed.")
          ELSE /\ Finish(th, FALSE,
                         "Database error occurred while updating book availability.")
               /\ UNCHANGED books
    /\ UNCHANGED <<records, now, ticks, trip>>

RaceBeginStep == \E th \in Threads : RaceBegin(th)
RaceGetBookStep == \E th \in Threads : RaceGetBook(th)
RaceGetCountStep == \E th \in Threads : RaceGetCount(th)
RaceInsertStep == \E th \in Threads : RaceInsert(th)
RaceUpdateStep == \E th \in Threads : RaceUpdate(th)

NextRace ==
    \/ RaceBeginStep
    \/ RaceGetBookStep
    \/ RaceGetCountStep
    \/ RaceInsertStep
    \/ RaceUpdateStep

SpecRace == InitRace /\ [][NextRace]_vars

----------------------------------------------------------------------------
(* Circulation with failing store writes: the catalog holds one book with  *)
(* two copies, and up to MaxOrphanFaults store writes report failure.      *)
(* trip follows the first borrow whose record insert succeeded and whose   *)
(* availability update failed: stage 4 once that borrow has returned       *)
(* (pre is the book's available_copies before it), stage 5 once a return   *)
(* of its (patron, book) pair has stamped a record, stage 6 once another   *)
(* call has changed the book's row or records in between or afterwards.    *)

UpdateFailedMsg == "Database error occurred while updating book availability."

OrphanCatalog == add_book_to_catalog(<<>>, <<>>, 1, 1, Isbn1, PyInt(2), TRUE).books

InitOrphan ==
    /\ books = OrphanCatalog
    /\ records = <<>>
    /\ now = 0
    /\ ticks = 0
    /\ last = Last("init", NoArgs, TRUE, "", NoFee, NoPayload, <<>>, "")
    /\ faults = 0
    /\ trip = Idle
    /\ inflight = NoCalls

CommitOrphan(op, out) ==
    /\ books' = out.books
    /\ records' = out.records
    /\ last' = Last(op, NoArgs, out.ok, out.msg, NoFee, NoPayload, <<>>, "")
    /\ faults' = IF out.msg \in WriteErrors THEN faults + 1 ELSE faults
    /\ faults' <= MaxOrphanFaults
    /\ UNCHANGED <<now, ticks, inflight>>

BorrowOrphan ==
    \E patron_id \in ValidPatrons, book_id \in BookIds(1), fault \in WriteFaults :
        \E out \in {borrow_book_by_patron(books, records, now, patron_id, book_id,
                                         fault # 1, fault # 2)} :
            /\ Len(out.records) <= MaxRecords
            /\ CommitOrphan("borrow", out)
            /\ trip' = IF trip.stage = 0 /\ out.msg = UpdateFailedMsg
                       THEN [book |-> book_id, stage |-> 4, patron |-> patron_id,
                             pre |-> books[book_id].available_copies,
                             held |-> Cardinality(OpenPairIdx(records, patron_id, book_id))]
                       ELSE IF trip.stage \in {4, 5} /\ book_id = trip.book
                               /\ (out.books # books \/ out.records # records)
                       THEN [trip EXCEPT !.stage = 6]
                       ELSE trip

ReturnOrphan ==
    \E patron_id \in ValidPatrons, book_id \in BookIds(1), fault \in WriteFaults :
      \E k \in IF OpenPairIdx(records, patron_id, book_id) # {}
                THEN OpenPairIdx(records, patron_id, book_id) ELSE {0} :
        \E out \in {return_book_by_patron(books, records, now, patron_id, book_id, k,
                                         fault # 1, fault # 2)} :
            /\ CommitOrphan("return", out)
            /\ trip' = IF trip.stage = 4 /\ book_id = trip.book
                          /\ out.records # records
                       THEN [trip EXCEPT !.stage =
                                IF patron_id = trip.patron THEN 5 ELSE 6]
                       ELSE IF trip.stage = 5 /\ book_id = trip.book
                               /\ (out.books # books \/ out.records # records)
                       THEN [trip EXCEPT !.stage = 6]
                       ELSE trip

NextOrphan ==
    \/ BorrowOrphan
    \/ ReturnOrphan

SpecOrphan == InitOrphan /\ [][NextOrphan]_vars

----------------------------------------------------------------------------
(* The patron's report: the catalog holds one book with two copies;        *)
(* patrons borrow and return while the clock moves by half a day, by the   *)
(* loan period, or by 17 or 25 days at a time.                             *)

InitReport ==
    /\ books = OrphanCatalog
    /\ records = <<>>
    /\ now = 0
    /\ ticks = 0
    /\ last = Last("init", NoArgs, TRUE, "", NoFee, NoPayload, <<>>, "")
    /\ faults = 0
    /\ trip = Idle
    /\ inflight = NoCalls

ReportSteps ==
    {1, LoanDays * TicksPerDay, (LoanDays + 3) * TicksPerDay, (LoanDays + 11) * TicksPerDay}

BorrowReport == Borrow(ValidPatrons, 1, MaxReportRecords)
ReturnReport == Return(ValidPatrons, 1)
StatusReportStep == StatusReport(ValidPatrons \cup {PShort})
TickReport == Tick(ReportSteps, MaxReportTicks)

NextReport ==
    \/ BorrowReport
    \/ ReturnReport
    \/ StatusReportStep
    \/ TickReport

SpecReport == InitReport /\ [][NextReport]_vars

----------------------------------------------------------------------------
(* Every operation together: the catalog holds a book with as many copies  *)
(* as the limit, all borrowed by one patron, and a book with one copy.     *)
(* At most MaxFrameExtra further records are made and at most              *)
(* MaxFrameReturned records are returned.                                  *)

FrameCatalog ==
    add_book_to_catalog(
        add_book_to_catalog(<<>>, <<>>, 1, 1, Isbn1, PyInt(BorrowLimit), TRUE).books,
        <<>>, 1, 1, Isbn2, PyInt(1), TRUE).books

InitFrame ==
    /\ \E out \in {BorrowTimes(FrameCatalog, <<>>, P1, 1, BorrowLimit)} :
          books = out.books /\ records = out.records
    /\ now = 0
    /\ ticks = 0
    /\ last = Last("init", NoArgs, TRUE, "", NoFee, NoPayload, <<>>, "")
    /\ faults = 0
    /\ trip = Idle
    /\ inflight = NoCalls

ReturnedCount(recs) == Cardinality({i \in 1..Len(recs) : ~IsOpen(recs[i])})

BorrowFrame == Borrow(CircPatrons, MaxBooks, BorrowLimit + MaxFrameExtra)
ReturnFrame == Return(CircPatrons, MaxBooks) /\ ReturnedCount(records') <= MaxFrameReturned
LateFeeFrame == LateFee({P1, PLetters}, MaxBooks)
StatusReportFrame == StatusReport({P1, PShort})
PayFrame == Pay({P1}, MaxBooks)
TickFrame == Tick({(LoanDays + 3) * TicksPerDay}, MaxTicks)

\* refund with an accepted, a rejected and a faulting call
RefundFrame ==
    \E a \in {<<Tx, PyInt(300)>>, <<Tx, PyInt(0)>>, <<PyNone, PyInt(300)>>} :
      \E resp \in {Raises("boom"), refund_payment(a[1], ToFloat(a[2]).amt)} :
        \E out \in {refund_late_fee_payment(a[1], a[2], resp)} :
            /\ last' = Last("refund", <<a[1], a[2], resp>>, out.ok, out.msg,
                            NoFee, out.payload, out.calls, out.raised)
            /\ trip' = Idle
            /\ UNCHANGED <<books, records, now, ticks, faults, inflight>>

NextFrame ==
    \/ BorrowFrame
    \/ ReturnFrame
    \/ LateFeeFrame
    \/ Search
    \/ StatusReportFrame
    \/ PayFrame
    \/ RefundFrame
    \/ TickFrame

SpecFrame == InitFrame /\ [][NextFrame]_vars

----------------------------------------------------------------------------
(* Properties *)

OpenCount(recs, book_id) ==
    Cardinality({i \in 1..Len(recs) : recs[i].book_id = book_id /\ IsOpen(recs[i])})

C2_BorrowLimit ==
    /\ [](\A p \in ValidPatrons : get_patron_borrow_count(records, p) <= BorrowLimit)
    /\ [][\A p \in ValidPatrons :
            get_patron_borrow_count(records, p) >= BorrowLimit
                => OpenIdx(records', p) \subseteq OpenIdx(records, p)]_vars

\* a patron with 5 unreturned records asked for a book that has a copy left
\* and was refused
C2_Witness ==
    /\ \E p \in ValidPatrons : get_patron_borrow_count(records, p) = BorrowLimit
    /\ last.op = "borrow" /\ ~last.ok
    /\ last.msg = "You have reached the maximum borrowing limit of 5 books."

NoRecordMsg == "No borrowing record found for this patron and book."

DuplicateMsg == "A book with this ISBN already exists."

\* the fee the schedule gives for d whole days overdue, in cents
ScheduleFee(d) ==
    IF d = 0 THEN 0
    ELSE IF d <= 7 THEN 50 * d
    ELSE IF 350 + 100 * (d - 7) > 1500 THEN 1500
    ELSE 350 + 100 * (d - 7)

\* C4: for an active record the fee lookup reports the whole days d between
\* the due date and the clock (0 before the due date) and charges 0 for
\* d = 0, 0.50 a day up to 7 days and 1.00 a day beyond, at most 15.00; the
\* status is "Success" exactly when d = 0 and "Overdue by d days" otherwise.
C4_FeeSchedule ==
    (last.op = "late_fee" /\ last.fee.status \in {"Success", "Overdue by N days"}) =>
        LET d == last.fee.days_overdue
            t == last.args[3]
            due == records[1].due_date
            fee == last.fee.fee_amount
        IN  /\ d >= 0
            /\ t < due => d = 0
            /\ t >= due => d * TicksPerDay <= t - due /\ t - due < (d + 1) * TicksPerDay
            /\ fee = ScheduleFee(d)
            /\ d = 5 => fee = 250
            /\ d = 10 => fee = 650
            /\ d = 100 => fee = 1500
            /\ last.fee.status = "Success" <=> d = 0
            /\ d > 0 => last.fee.status = "Overdue by N days" /\ last.fee.n = d

\* a record 100 days overdue is charged the cap
C4_Witness ==
    /\ last.op = "late_fee"
    /\ last.fee.days_overdue = 100
    /\ last.fee.fee_amount = 1500

\* C5: no two books of the catalog share an ISBN; add_book with the ISBN of
\* a book of the catalog fails and inserts nothing, with the duplicate-ISBN
\* reason when its other arguments are valid.
C5_IsbnUnique ==
    /\ [](\A i, j \in 1..Len(books) : books[i].isbn = books[j].isbn => i = j)
    /\ [][(last'.op = "add_book" /\ last' # last
            /\ \E i \in 1..Len(books) : books[i].isbn = last'.args[3].v)
           => /\ books' = books
              /\ ~last'.ok
              /\ (<<last'.args[1], last'.args[2], last'.args[3], last'.args[4]>>
                     \in ValidAddArgs({Isbn1, Isbn2, Isbn3}, {PyInt(1), PyInt(2)})
                   => last'.msg = DuplicateMsg)]_vars

\* a second add_book with the ISBN of a catalog book was refused as a
\* duplicate
C5_Witness ==
    /\ Len(books) >= 2
    /\ last.op = "add_book" /\ last.msg = DuplicateMsg

HasBook(book_id) == book_id \in 1..Len(books)

\* C6: pay_late_fees makes no gateway call when the patron id is invalid,
\* the book is absent, the pair has no active record or the fee is 0; with
\* a fee of 0 it returns success with "No late fees".
C6_NoChargeWithoutFee ==
    last.op = "pay" =>
        LET p == last.args[1]
            b == last.args[2]
        IN  /\ (\/ p \notin ValidPatrons
                \/ ~HasBook(b)
                \/ OpenPairIdx(records, p, b) = {}
                \/ last.fee.fee_amount = 0) => last.calls = <<>>
            /\ (/\ p \in ValidPatrons
                /\ HasBook(b)
                /\ OpenPairIdx(records, p, b) # {}
                /\ last.fee.fee_amount = 0) => last.ok /\ last.msg = "No late fees"

\* a payment for an active record that is not overdue
C6_Witness ==
    /\ last.op = "pay"
    /\ last.args[1] \in ValidPatrons /\ HasBook(last.args[2])
    /\ OpenPairIdx(records, last.args[1], last.args[2]) # {}
    /\ last.fee.fee_amount = 0
    /\ last.ok /\ last.msg = "No late fees" /\ last.calls = <<>>

HasMarker(resp, marker) ==
    resp.k = "dict" /\ "status" \in resp.has /\ resp.status = marker

\* C7: when the charge returns without the success marker, pay_late_fees
\* returns a failure whose message is the gateway's reason, or the generic
\* failure message when the response is None, empty, not a mapping or a
\* mapping without a reason.
C7_DeclineMessage ==
    (/\ last.op = "pay"
     /\ last.calls # <<>>
     /\ last.args[3].k # "raise"
     /\ ~HasMarker(last.args[3], "success")) =>
        /\ last.raised = ""
        /\ ~last.ok
        /\ last.msg = IF last.args[3].k = "dict" /\ "reason" \in last.args[3].has
                      THEN last.args[3].reason
                      ELSE "Payment failed"

IsBlank(transaction_id) ==
    transaction_id = PyNone \/ (transaction_id.t = "str" /\ transaction_id.v = <<>>)

\* C8: a refund with a blank transaction id, an amount <= 0 or an amount
\* > 15.00 fails without a gateway call; with a non-blank transaction id and
\* an amount in (0, 15.00] the gateway's refund is called exactly once with
\* that id and amount.
C8_RefundBounds ==
    last.op = "refund" =>
        LET tx == last.args[1]
            amount == ToFloat(last.args[2])
        IN  /\ (\/ IsBlank(tx)
                \/ amount.ok /\ (amount.amt <= 0 \/ amount.amt > 1500))
               => last.calls = <<>> /\ ~last.ok
            /\ (/\ tx.t = "str" /\ ~IsBlank(tx)
                /\ amount.ok /\ amount.amt > 0 /\ amount.amt <= 1500)
               => last.calls = <<Call("refund_payment", tx, amount.amt)>>

\* a refund of exactly 15.00 reached the gateway
C8_Witness ==
    /\ last.op = "refund"
    /\ last.args[2] = PyInt(1500)
    /\ last.calls = <<Call("refund_payment", Tx, 1500)>>

ErrorMapping(status) == FeeMapping(0, 0, status, 0)

\* C9: on an input error the fee lookup returns fee 0, days 0 and the error
\* text, the invalid patron id first, then the absent book, then the
\* missing active record.
C9_LateFeeErrors ==
    last.op = "late_fee" =>
        LET p == last.args[1]
            b == last.args[2]
        IN  /\ p \notin ValidPatrons
                => last.fee = ErrorMapping("Invalid patron ID. Must be exactly 6 digits.")
            /\ p \in ValidPatrons /\ ~HasBook(b)
                => last.fee = ErrorMapping("Book not found.")
            /\ p \in ValidPatrons /\ HasBook(b) /\ OpenPairIdx(records, p, b) = {}
                => last.fee = ErrorMapping("No active borrowing record found.")

\* a lookup with an invalid patron id and an absent book reports the
\* patron id
C9_Witness ==
    /\ last.op = "late_fee"
    /\ last.args[1] \notin ValidPatrons /\ ~HasBook(last.args[2])
    /\ last.fee.status = "Invalid patron ID. Must be exactly 6 digits."

\* C10: a fault raised by the gateway does not escape pay_late_fees or the
\* refund: the call returns a payment-exception or refund-exception
\* failure, and no call invokes the gateway more than once.
C10_FaultCaughtOnce ==
    last.op \in {"pay", "refund"} =>
        /\ Len(last.calls) <= 1
        /\ (last.args[3].k = "raise" /\ last.calls # <<>>) =>
                /\ last.raised = ""
                /\ ~last.ok
                /\ last.msg = IF last.op = "pay"
                              THEN "Payment exception: boom"
                              ELSE "Refund exception: boom"

\* the gateway raised during a charge, which was reported as a failure
C10_Witness ==
    /\ last.op = "pay"
    /\ last.args[3].k = "raise"
    /\ Len(last.calls) = 1
    /\ ~last.ok /\ last.msg = "Payment exception: boom"

\* C11: when two overlapping borrow calls have both succeeded, and both read
\* one available copy of the same book, the book ends with available_copies
\* below 0 and more unreturned records than total copies; and when both were
\* made by one patron and both read a count one below the limit, the patron
\* ends with more unreturned records than the limit.
C11_Oversell ==
    (\A th \in Threads : inflight[th].pc = "done" /\ inflight[th].ok) =>
        /\ (\A th \in Threads : inflight[th].book = inflight[1].book
                                 /\ inflight[th].avail = 1)
              => /\ books[inflight[1].book].available_copies < 0
                 /\ OpenCount(records, inflight[1].book)
                        > books[inflight[1].book].total_copies
        /\ (\A th \in Threads : inflight[th].patron = inflight[1].patron
                                 /\ inflight[th].count = BorrowLimit - 1)
              => get_patron_borrow_count(records, inflight[1].patron) > BorrowLimit

\* two overlapping calls of one patron holding 4 books, for the one copy of
\* a book, have both succeeded
C11_Witness ==
    /\ \A th \in Threads :
          /\ inflight[th].pc = "done" /\ inflight[th].ok
          /\ inflight[th].patron = P1 /\ inflight[th].book = 1
          /\ inflight[th].avail = 1 /\ inflight[th].count = BorrowLimit - 1
    /\ books[1].available_copies = -1
    /\ get_patron_borrow_count(records, P1) = BorrowLimit + 1

\* the book's available_copies minus what its records account for
Surplus(bks, recs, book_id) ==
    bks[book_id].available_copies - (bks[book_id].total_copies - OpenCount(recs, book_id))

\* a borrow whose record insert succeeded and whose availability update
\* failed returns a failure, leaves the new record unreturned and leaves
\* the catalog as it was
OrphanLeft ==
    [][(last'.op = "borrow" /\ last'.msg = UpdateFailedMsg) =>
          /\ ~last'.ok
          /\ books' = books
          /\ Len(records') = Len(records) + 1
          /\ SubSeq(records', 1, Len(records)) = records
          /\ IsOpen(records'[Len(records')])]_vars

RECURSIVE SumScheduleFees(_, _, _)
\* the sum over the records idx of the fee the schedule gives for the whole
\* days by which the clock t is past the due date
SumScheduleFees(recs, t, idx) ==
    IF idx = {} THEN 0
    ELSE LET i == CHOOSE x \in idx : TRUE
         IN  ScheduleFee(DaysOverdue(t, recs[i].due_date))
             + SumScheduleFees(recs, t, idx \ {i})

\* C13: for a valid patron the report's total_late_fees is the sum over the
\* patron's unreturned records of the schedule's fee for each record's days
\* overdue, and total_borrowed is the number of those records.
C13_ReportTotals ==
    (last.op = "status_report" /\ ~InvalidPatron(last.args[1])) =>
        /\ last.payload.total_late_fees
              = SumScheduleFees(records, last.args[2], OpenIdx(records, last.args[1]))
        /\ last.payload.total_borrowed = Cardinality(OpenIdx(records, last.args[1]))

\* a report for a patron with two unreturned records, one overdue in the
\* second tier and one in the first
C13_Witness ==
    /\ last.op = "status_report" /\ ~InvalidPatron(last.args[1])
    /\ last.payload.total_borrowed = 2
    /\ \E i, j \in OpenIdx(records, last.args[1]) :
          /\ DaysOverdue(last.args[2], records[i].due_date) > TierDays
          /\ DaysOverdue(last.args[2], records[j].due_date) \in 1..TierDays
    /\ last.payload.total_late_fees > 0

\* no record is deleted, and no field of a record but its return timestamp
\* ever changes
RecordsKept ==
    /\ Len(records') >= Len(records)
    /\ \A i \in 1..Len(records) :
          [records'[i] EXCEPT !.return_date = NoDate]
             = [records[i] EXCEPT !.return_date = NoDate]

\* the records created by the step are one record, made at the clock, due
\* 14 days later and unreturned
CreatedOpen ==
    Len(records') > Len(records) =>
        /\ Len(records') = Len(records) + 1
        /\ records'[Len(records')].borrow_date = now
        /\ records'[Len(records')].due_date = now + LoanDays * TicksPerDay
        /\ records'[Len(records')].return_date = NoDate

\* a record that is closed stays as it is
ClosedForGood ==
    \A i \in 1..Len(records) : ~IsOpen(records[i]) => records'[i] = records[i]

\* the step closes record i as a return of the record's (patron, book) pair
\* at the clock does, with availability update upd_ok
ClosedByReturn(i, upd_ok) ==
    /\ last'.op = "return"
    /\ records'[i].return_date = now
    /\ \A j \in 1..Len(records) : j # i => records'[j] = records[j]
    /\ \E out \in {return_book_by_patron(books, records, now, records[i].patron_id,
                                          records[i].book_id, i, TRUE, upd_ok)} :
          records' = out.records /\ books' = out.books /\ last'.ok = out.ok

\* C14 as stated: a record is created only by a successful borrow, due 14
\* days after its borrow timestamp and unreturned; it is closed only by a
\* successful return of its pair; a closed record is never reopened,
\* re-stamped or deleted.
C14_RecordLifecycle ==
    [][/\ RecordsKept
       /\ CreatedOpen
       /\ ClosedForGood
       /\ Len(records') > Len(records) => last'.op = "borrow" /\ last'.ok
       /\ \A i \in 1..Len(records) :
             IsOpen(records[i]) /\ ~IsOpen(records'[i])
                => ClosedByReturn(i, TRUE) /\ last'.ok]_vars

\* C14 amended: the creating call is a borrow whose record insert succeeded,
\* and the closing call a return of the pair whose record update succeeded;
\* either call reports failure when its availability update then fails.
C14_RecordLifecycleWrites ==
    [][/\ RecordsKept
       /\ CreatedOpen
       /\ ClosedForGood
       /\ Len(records') > Len(records)
             => /\ last'.op = "borrow"
                /\ last'.ok \/ last'.msg = UpdateFailedMsg
                /\ last'.ok <=> books' # books
       /\ \A i \in 1..Len(records) :
             IsOpen(records[i]) /\ ~IsOpen(records'[i])
                => \E upd_ok \in BOOLEAN :
                      ClosedByReturn(i, upd_ok) /\ (last'.ok <=> upd_ok)]_vars

\* a patron borrowed a book twice; one record was closed by a return, and a
\* later return of the pair has closed the other and left the first as it was
C14_Witness ==
    /\ last.op = "return" /\ last.ok
    /\ \E i, j \in 1..Len(records) :
          /\ records[i].patron_id = records[j].patron_id
          /\ records[i].book_id = records[j].book_id
          /\ ~IsOpen(records[i]) /\ records[i].return_date < now
          /\ records[j].return_date = now
          /\ records[j].due_date = records[j].borrow_date + LoanDays * TicksPerDay

\* the reasons with which a check of borrow or return rejects a call
Rejections ==
    { "Invalid patron ID. Must be exactly 6 digits.",
      "Book not found.",
      "This book is currently not available.",
      "You have reached the maximum borrowing limit of 5 books.",
      NoRecordMsg }

ReadOnlyOps == {"late_fee", "search", "status_report", "pay", "refund"}

\* C15: a borrow or return call rejected by a check leaves the catalog and
\* the borrow records as they were; late_fee, search, status_report,
\* pay_late_fees and refund leave them as they were whatever they return;
\* after a successful payment the record is still unreturned and the fee
\* is still owed.
C15_Frame ==
    /\ [][((last'.op \in {"borrow", "return"} /\ last'.msg \in Rejections)
              \/ last'.op \in ReadOnlyOps)
             => (books' = books /\ records' = records)]_vars
    /\ []((last.op = "pay" /\ last.ok /\ last.payload.amount > 0)
            => /\ FindBorrowRecord(records, last.args[1], last.args[2]) # 0
               /\ calculate_late_fee_for_book(books, records, now,
                      last.args[1], last.args[2]).fee_amount >= last.payload.amount)

\* a late fee has been paid, and the record is still unreturned
C15_Witness ==
    /\ last.op = "pay" /\ last.ok /\ last.payload.amount > 0
    /\ last.calls # <<>>
    /\ FindBorrowRecord(records, last.args[1], last.args[2]) # 0
    /\ books[last.args[2]].available_copies = 0

====
